---- MODULE Spec2Model ----
(***************************************************************************)
(* Detection orchestration core of ai-attestation: three lazily loaded     *)
(* detectors (text, deepfake, ai_image), the UnifiedDetectionService that   *)
(* dispatches to them, and the fusion of the two image verdicts.           *)
(* Requests are threads that execute the service methods step by step;     *)
(* every step is one access to the shared detector fields.                 *)
(***************************************************************************)
EXTENDS Integers, Sequences, FiniteSets, TLC

(* ---------------- bounds ---------------- *)
NThreads == 2
NContents == 2

Threads == 1..NThreads

(* ---------------- vocabulary ---------------- *)
Detectors == {"text", "deepfake", "ai_image"}
CodeDetectors == {"text", "deepfake"}
ValidModes == {"deepfake", "ai_generated", "both"}
Modes == ValidModes \cup {"bogus", "BOTH"}
ImageKinds == {"path", "bytes", "pil", "other"}
Contents == 1..NContents
RawSamples == {20000, 50000, 85000}

NoHandle == [id |-> 0, moved |-> FALSE, eval |-> FALSE]
\* from_pretrained returns a new object: its identity differs from the one replaced
NewId(old) == IF old = 1 THEN 2 ELSE 1
NoResult == [kind |-> "none"]
NoReq == [op |-> "none", mode |-> "none", kind |-> "none", content |-> 0]

VARIABLES
    device,       \* self.device of each detector
    loaded,       \* self._loaded of each detector
    model,        \* self.model of each detector (the object it refers to)
    tok,          \* self.tokenizer / self.processor of each detector
    activations,  \* number of times self._loaded = True was executed
    pc,           \* position of each request
    req,          \* the call each request is executing
    cur,          \* detector whose method the request is in
    part,         \* deepfake_result / ai_image_result locals of detect_image
    ret,          \* value returned by the call
    err,          \* exception raised by the call
    invoked,      \* detectors whose detect()/load() the call has entered, in order
    acq,          \* acquisition steps the call has attempted, in order
    calc,         \* a score conversion applied on its own: inputs and output
    detection_service,  \* the module global _detection_service (0 is None)
    constructed,  \* number of UnifiedDetectionService objects constructed
    gpc,          \* position of each caller inside get_detection_service()
    inst,         \* the object a caller has constructed and not yet stored
    handed        \* what get_detection_service() returned to each caller

shared == <<device, loaded, model, tok, activations>>
locals == <<pc, req, cur, part, ret, err, invoked, acq>>
single == <<detection_service, constructed, gpc, inst, handed>>
vars == <<device, loaded, model, tok, activations,
          pc, req, cur, part, ret, err, invoked, acq, calc,
          detection_service, constructed, gpc, inst, handed>>

NoPart == [deepfake |-> NoResult, ai_image |-> NoResult]
NoCalc == [stage |-> "none", raw |-> 0, raw2 |-> 0, out |-> NoResult]

\* the state once the service and its detectors are constructed
Constructed ==
    /\ \E cuda \in BOOLEAN :
         device = [d \in Detectors |-> IF cuda THEN "cuda" ELSE "cpu"]
    /\ loaded = [d \in Detectors |-> FALSE]
    /\ model = [d \in Detectors |-> NoHandle]
    /\ tok = [d \in Detectors |-> 0]
    /\ activations = [d \in Detectors |-> 0]
    /\ pc = [t \in Threads |-> "idle"]
    /\ req = [t \in Threads |-> NoReq]
    /\ cur = [t \in Threads |-> "none"]
    /\ part = [t \in Threads |-> NoPart]
    /\ ret = [t \in Threads |-> NoResult]
    /\ err = [t \in Threads |-> "none"]
    /\ invoked = [t \in Threads |-> <<>>]
    /\ acq = [t \in Threads |-> <<>>]

\* the module as imported: _detection_service = None
Imported ==
    /\ detection_service = 0
    /\ constructed = 0
    /\ gpc = [t \in Threads |-> "idle"]
    /\ inst = [t \in Threads |-> 0]
    /\ handed = [t \in Threads |-> 0]

Init ==
    /\ Constructed
    /\ Imported
    /\ calc = NoCalc

(* ---------------- pure functions of the detectors ---------------- *)
\* Scores are integers: a raw model score is in units of 1e-5 (0..100000),
\* a percentage is in hundredths of a percent (0..10000).
Abs(x) == IF x < 0 THEN -x ELSE x

\* round(x, 2): n/k rounded to the nearest integer, ties to even
RoundDiv(n, k) ==
    LET q == n \div k
        r == n % k
    IN  IF 2 * r < k THEN q
        ELSE IF 2 * r > k THEN q + 1
        ELSE IF q % 2 = 0 THEN q ELSE q + 1

\* hashlib.sha256(data).hexdigest(): a digest of the bytes and of nothing else.
\* Bytes are <<form, content>>: "raw" for the content as it was given, "png"
\* for the PNG encoding of its RGB image.
Sha256Hex(data) == <<"sha256", data>>

\* text.encode('utf-8')
EncodeUtf8(text) == <<"raw", text>>

\* variant: every image is converted and re-encoded before it is hashed
HashedBytesReencoded(kind, content) == <<"png", content>>

\* the bytes detect() hashes: the file's contents for a path, the bytes
\* themselves for bytes, the PNG encoding of the RGB image for a PIL image
HashedBytes(kind, content) ==
    IF kind = "pil" THEN <<"png", content>> ELSE <<"raw", content>>

\* variant: exactly 70 counts as ai
TextClassifyInclusive(ai_prob) ==
    IF ai_prob >= 7000 THEN "ai"
    ELSE IF ai_prob < 3000 THEN "human"
    ELSE "mixed"

TextClassify(ai_prob) ==
    IF ai_prob > 7000 THEN "ai"
    ELSE IF ai_prob < 3000 THEN "human"
    ELSE "mixed"

TextResult(content, raw) ==
    LET ai_prob == RoundDiv(raw, 10)
    IN  [kind |-> "text",
         content_hash |-> Sha256Hex(EncodeUtf8(content)),
         ai_probability |-> ai_prob,
         human_probability |-> RoundDiv(100000 - raw, 10),
         classification |-> TextClassify(ai_prob),
         confidence |-> RoundDiv(Abs(raw - 50000), 5),
         detection_model |-> "desklib-v1.01"]

\* variant: exactly 30 counts as real
DeepfakeClassifyInclusive(deepfake_prob) ==
    IF deepfake_prob > 7000 THEN "deepfake"
    ELSE IF deepfake_prob <= 3000 THEN "real"
    ELSE "uncertain"

DeepfakeClassify(deepfake_prob) ==
    IF deepfake_prob > 7000 THEN "deepfake"
    ELSE IF deepfake_prob < 3000 THEN "real"
    ELSE "uncertain"

DeepfakeResult(content, raw) ==
    LET deepfake_prob == RoundDiv(raw, 10)
    IN  [kind |-> "deepfake",
         content_hash |-> Sha256Hex(content),
         deepfake_probability |-> deepfake_prob,
         real_probability |-> RoundDiv(100000 - raw, 10),
         ai_probability |-> deepfake_prob,
         classification |-> DeepfakeClassify(deepfake_prob),
         confidence |-> Abs(deepfake_prob - 5000) * 2,
         detection_model |-> "deep-fake-detector-v2"]

\* The synthetic-image detector mirrors the deepfake threshold shape with the
\* labels ai_generated / authentic / uncertain.
AIImageClassify(ai_prob) ==
    IF ai_prob > 7000 THEN "ai_generated"
    ELSE IF ai_prob < 3000 THEN "authentic"
    ELSE "uncertain"

AIImageResult(content, raw) ==
    LET ai_prob == RoundDiv(raw, 10)
    IN  [kind |-> "ai_image",
         content_hash |-> Sha256Hex(content),
         ai_probability |-> ai_prob,
         classification |-> AIImageClassify(ai_prob),
         confidence |-> Abs(ai_prob - 5000) * 2,
         detection_model |-> "sdxl-detector"]

Max(a, b) == IF a >= b THEN a ELSE b

\* variant: the ai_generated rule is tested before the deepfake rule
CombineImageResultsAIFirst(deepfake, ai_image) ==
    LET max_ai_prob == Max(deepfake.deepfake_probability, ai_image.ai_probability)
        verdict ==
            IF ai_image.classification = "ai_generated"
            THEN <<"ai_generated", "AI-generated image detected">>
            ELSE IF deepfake.classification = "deepfake"
            THEN <<"deepfake", "Face manipulation detected">>
            ELSE IF deepfake.classification = "uncertain"
                    \/ ai_image.classification = "uncertain"
            THEN <<"uncertain", "Inconclusive - may contain AI elements">>
            ELSE <<"authentic", "No AI manipulation detected">>
    IN  [ai_probability |-> max_ai_prob,
         classification |-> verdict[1],
         assessment |-> verdict[2]]

\* variant: without the uncertain rule
CombineImageResultsNoUncertain(deepfake, ai_image) ==
    LET max_ai_prob == Max(deepfake.deepfake_probability, ai_image.ai_probability)
        verdict ==
            IF deepfake.classification = "deepfake"
            THEN <<"deepfake", "Face manipulation detected">>
            ELSE IF ai_image.classification = "ai_generated"
            THEN <<"ai_generated", "AI-generated image detected">>
            ELSE <<"authentic", "No AI manipulation detected">>
    IN  [ai_probability |-> max_ai_prob,
         classification |-> verdict[1],
         assessment |-> verdict[2]]

\* variant: the probability is that of the detector whose rule fired
CombineImageResultsFiredProb(deepfake, ai_image) ==
    LET max_ai_prob == Max(deepfake.deepfake_probability, ai_image.ai_probability)
        verdict ==
            IF deepfake.classification = "deepfake"
            THEN <<"deepfake", "Face manipulation detected",
                   deepfake.deepfake_probability>>
            ELSE IF ai_image.classification = "ai_generated"
            THEN <<"ai_generated", "AI-generated image detected",
                   ai_image.ai_probability>>
            ELSE IF deepfake.classification = "uncertain"
                    \/ ai_image.classification = "uncertain"
            THEN <<"uncertain", "Inconclusive - may contain AI elements", max_ai_prob>>
            ELSE <<"authentic", "No AI manipulation detected", max_ai_prob>>
    IN  [ai_probability |-> verdict[3],
         classification |-> verdict[1],
         assessment |-> verdict[2]]

\* UnifiedDetectionService._combine_image_results
CombineImageResults(deepfake, ai_image) ==
    LET max_ai_prob == Max(deepfake.deepfake_probability, ai_image.ai_probability)
        verdict ==
            IF deepfake.classification = "deepfake"
            THEN <<"deepfake", "Face manipulation detected">>
            ELSE IF ai_image.classification = "ai_generated"
            THEN <<"ai_generated", "AI-generated image detected">>
            ELSE IF deepfake.classification = "uncertain"
                    \/ ai_image.classification = "uncertain"
            THEN <<"uncertain", "Inconclusive - may contain AI elements">>
            ELSE <<"authentic", "No AI manipulation detected">>
    IN  [ai_probability |-> max_ai_prob,
         classification |-> verdict[1],
         assessment |-> verdict[2]]

\* the dictionary detect_image builds in mode "both"
BothResult(deepfake_result, ai_image_result) ==
    [kind |-> "both",
     content_hash |-> deepfake_result.content_hash,
     deepfake_analysis |->
        [probability |-> deepfake_result.deepfake_probability,
         classification |-> deepfake_result.classification,
         confidence |-> deepfake_result.confidence,
         model |-> deepfake_result.detection_model],
     ai_generated_analysis |->
        [probability |-> ai_image_result.ai_probability,
         classification |-> ai_image_result.classification,
         confidence |-> ai_image_result.confidence,
         model |-> ai_image_result.detection_model],
     overall |-> CombineImageResults(deepfake_result, ai_image_result)]

(* ---------------- how a call ends ---------------- *)
\* variant: in mode both a failure after the first result returns that result
RaiseBestEffort(t, e) ==
    IF req[t].op = "detect_image" /\ req[t].mode = "both" /\ part[t].deepfake # NoResult
    THEN /\ pc' = [pc EXCEPT ![t] = "returned"]
         /\ ret' = [ret EXCEPT ![t] = part[t].deepfake]
         /\ cur' = [cur EXCEPT ![t] = "none"]
         /\ part' = [part EXCEPT ![t] = NoPart]
         /\ UNCHANGED <<req, err, invoked>>
    ELSE /\ pc' = [pc EXCEPT ![t] = "raised"]
         /\ err' = [err EXCEPT ![t] = e]
         /\ cur' = [cur EXCEPT ![t] = "none"]
         /\ part' = [part EXCEPT ![t] = NoPart]
         /\ UNCHANGED <<req, ret, invoked>>

\* an exception leaves the call: the locals are dropped, nothing is returned
Raise(t, e) ==
    /\ pc' = [pc EXCEPT ![t] = "raised"]
    /\ err' = [err EXCEPT ![t] = e]
    /\ cur' = [cur EXCEPT ![t] = "none"]
    /\ part' = [part EXCEPT ![t] = NoPart]
    /\ UNCHANGED <<req, ret, invoked>>

Return(t, v) ==
    /\ pc' = [pc EXCEPT ![t] = "returned"]
    /\ ret' = [ret EXCEPT ![t] = v]
    /\ cur' = [cur EXCEPT ![t] = "none"]
    /\ part' = [part EXCEPT ![t] = NoPart]
    /\ UNCHANGED <<req, err, invoked>>

\* the caller takes the result or the exception; the request is over
Finish(t) ==
    /\ pc[t] \in {"returned", "raised"}
    /\ pc' = [pc EXCEPT ![t] = "idle"]
    /\ req' = [req EXCEPT ![t] = NoReq]
    /\ ret' = [ret EXCEPT ![t] = NoResult]
    /\ err' = [err EXCEPT ![t] = "none"]
    /\ invoked' = [invoked EXCEPT ![t] = <<>>]
    /\ acq' = [acq EXCEPT ![t] = <<>>]
    /\ UNCHANGED <<cur, part>>
    /\ UNCHANGED shared

(* ---------------- UnifiedDetectionService: entry points ---------------- *)
\* variant: detect() goes straight to its input, without self.load()
EnterWithoutLoad(t, d) ==
    /\ pc' = [pc EXCEPT ![t] = "prep"]
    /\ cur' = [cur EXCEPT ![t] = d]
    /\ invoked' = [invoked EXCEPT ![t] = Append(@, d)]

\* enter detector d's detect() or load(): its first statement is the _loaded check
Enter(t, d) ==
    /\ pc' = [pc EXCEPT ![t] = "load"]
    /\ cur' = [cur EXCEPT ![t] = d]
    /\ invoked' = [invoked EXCEPT ![t] = Append(@, d)]

\* detect_text(text): return self.text_service.detect(text)
StartDetectText(t, texts) ==
    /\ pc[t] = "idle"
    /\ \E c \in texts :
         req' = [req EXCEPT ![t] =
                   [op |-> "detect_text", mode |-> "none", kind |-> "str", content |-> c]]
    /\ Enter(t, "text")
    /\ UNCHANGED <<part, ret, err>>
    /\ UNCHANGED shared
    /\ UNCHANGED acq

\* variant: an unknown detection_type is treated as the default, "both"
StartDetectImageDefaultsToBoth(t, modes, kinds, images) ==
    /\ pc[t] = "idle"
    /\ \E m \in modes, k \in kinds, c \in images :
         /\ req' = [req EXCEPT ![t] =
                      [op |-> "detect_image", mode |-> m, kind |-> k, content |-> c]]
         /\ IF m = "ai_generated" THEN Enter(t, "ai_image") ELSE Enter(t, "deepfake")
         /\ UNCHANGED <<part, ret, err>>
    /\ UNCHANGED acq
    /\ UNCHANGED shared

\* detect_image(image, detection_type): the if/elif/else on detection_type
StartDetectImage(t, modes, kinds, images) ==
    /\ pc[t] = "idle"
    /\ \E m \in modes, k \in kinds, c \in images :
         /\ req' = [req EXCEPT ![t] =
                      [op |-> "detect_image", mode |-> m, kind |-> k, content |-> c]]
         /\ IF m = "deepfake" THEN Enter(t, "deepfake") /\ UNCHANGED <<part, ret, err>>
            ELSE IF m = "ai_generated"
            THEN Enter(t, "ai_image") /\ UNCHANGED <<part, ret, err>>
            ELSE IF m = "both" THEN Enter(t, "deepfake") /\ UNCHANGED <<part, ret, err>>
            ELSE /\ pc' = [pc EXCEPT ![t] = "raised"]
                 /\ err' = [err EXCEPT ![t] = "ValueError"]
                 /\ UNCHANGED <<cur, part, ret, invoked>>
    /\ UNCHANGED shared
    /\ UNCHANGED acq

\* a direct call of a detector's load(), as __init__ makes with preload=True
StartLoad(t, ds) ==
    /\ pc[t] = "idle"
    /\ \E d \in ds :
         /\ req' = [req EXCEPT ![t] =
                      [op |-> "load", mode |-> d, kind |-> "none", content |-> 0]]
         /\ Enter(t, d)
    /\ UNCHANGED <<part, ret, err>>
    /\ UNCHANGED shared
    /\ UNCHANGED acq

(* ---------------- get_status ---------------- *)
StatusOrder == <<"text", "deepfake", "ai_image">>

StatusEntry(d) == [loaded |-> loaded[d], device |-> device[d]]

StartGetStatus(t) ==
    /\ pc[t] = "idle"
    /\ req' = [req EXCEPT ![t] =
                 [op |-> "get_status", mode |-> "none", kind |-> "none", content |-> 0]]
    /\ pc' = [pc EXCEPT ![t] = "status"]
    /\ ret' = [ret EXCEPT ![t] = [kind |-> "status_partial", services |-> <<>>]]
    /\ UNCHANGED <<cur, part, err, invoked>>
    /\ UNCHANGED shared
    /\ UNCHANGED acq

\* variant: reading a detector's status loads it
StatusReadActivates(t) ==
    /\ pc[t] = "status"
    /\ LET n == Len(ret[t].services)
           d == StatusOrder[n + 1]
           got == Append(ret[t].services, [loaded |-> TRUE, device |-> device[d]])
       IN  /\ loaded' = [loaded EXCEPT ![d] = TRUE]
           /\ IF n + 1 < Len(StatusOrder)
              THEN /\ ret' = [ret EXCEPT ![t] = [kind |-> "status_partial", services |-> got]]
                   /\ UNCHANGED <<pc, cur, part, req, err, invoked>>
              ELSE /\ Return(t, [kind |-> "status", services |-> got])
    /\ UNCHANGED acq
    /\ UNCHANGED <<device, model, tok, activations>>

\* the dictionary is built entry by entry: one read of _loaded per detector
StatusRead(t) ==
    /\ pc[t] = "status"
    /\ LET n == Len(ret[t].services)
           got == Append(ret[t].services, StatusEntry(StatusOrder[n + 1]))
       IN  IF n + 1 < Len(StatusOrder)
           THEN /\ ret' = [ret EXCEPT ![t] = [kind |-> "status_partial", services |-> got]]
                /\ UNCHANGED <<pc, cur, part, req, err, invoked>>
           ELSE /\ Return(t, [kind |-> "status", services |-> got])
    /\ UNCHANGED shared
    /\ UNCHANGED acq

(* ---------------- TextDetectionService / DeepfakeDetectionService ---------------- *)
\* statements of load() after the _loaded check, in source order
LoadOrder(d) ==
    IF d = "text"
    THEN <<"acq_tok", "acq_model", "to", "eval", "flag">>
    ELSE <<"acq_model", "acq_tok", "to", "eval", "flag">>

NextStage(d, stage) ==
    LET i == CHOOSE j \in 1..Len(LoadOrder(d)) : LoadOrder(d)[j] = stage
    IN  LoadOrder(d)[i + 1]

\* back in the caller of load(): load() itself returns None, detect() goes on
AfterLoad(t) ==
    IF req[t].op = "load"
    THEN Return(t, [kind |-> "None"])
    ELSE /\ pc' = [pc EXCEPT ![t] = "prep"]
         /\ UNCHANGED <<req, cur, part, ret, err, invoked>>

\* variant: load() without its "if self._loaded: return"
LoadCheckAlwaysLoads(t) ==
    /\ pc[t] = "load"
    /\ cur[t] \in CodeDetectors
    /\ pc' = [pc EXCEPT ![t] = LoadOrder(cur[t])[1]]
    /\ UNCHANGED <<req, cur, part, ret, err, invoked>>
    /\ UNCHANGED <<device, loaded, model, tok, activations>>
    /\ UNCHANGED acq

\* if self._loaded: return
LoadCheck(t) ==
    /\ pc[t] = "load"
    /\ cur[t] \in CodeDetectors
    /\ LET d == cur[t] IN
         IF loaded[d]
         THEN AfterLoad(t)
         ELSE /\ pc' = [pc EXCEPT ![t] = LoadOrder(d)[1]]
              /\ UNCHANGED <<req, cur, part, ret, err, invoked>>
    /\ UNCHANGED <<device, loaded, model, tok, activations>>
    /\ UNCHANGED acq

\* self.tokenizer / self.processor = ....from_pretrained(MODEL_NAME)
AcquireTok(t) ==
    /\ pc[t] = "acq_tok"
    /\ tok' = [tok EXCEPT ![cur[t]] = NewId(@)]
    /\ pc' = [pc EXCEPT ![t] = NextStage(cur[t], "acq_tok")]
    /\ UNCHANGED <<device, loaded, model, activations>>
    /\ UNCHANGED <<req, cur, part, ret, err, invoked>>
    /\ acq' = [acq EXCEPT ![t] = Append(@, <<cur[t], pc[t]>>)]

\* self.model = ....from_pretrained(MODEL_NAME): a new object, not yet set up
AcquireModel(t) ==
    /\ pc[t] = "acq_model"
    /\ model' = [model EXCEPT ![cur[t]] = [id |-> NewId(@.id), moved |-> FALSE, eval |-> FALSE]]
    /\ pc' = [pc EXCEPT ![t] = NextStage(cur[t], "acq_model")]
    /\ UNCHANGED <<device, loaded, tok, activations>>
    /\ UNCHANGED <<req, cur, part, ret, err, invoked>>
    /\ acq' = [acq EXCEPT ![t] = Append(@, <<cur[t], pc[t]>>)]

\* self.model.to(self.device): acts on the object self.model refers to now
MoveToDevice(t) ==
    /\ pc[t] = "to"
    /\ model' = [model EXCEPT ![cur[t]].moved = TRUE]
    /\ pc' = [pc EXCEPT ![t] = NextStage(cur[t], "to")]
    /\ UNCHANGED <<device, loaded, tok, activations>>
    /\ UNCHANGED <<req, cur, part, ret, err, invoked>>
    /\ acq' = [acq EXCEPT ![t] = Append(@, <<cur[t], pc[t]>>)]

\* self.model.eval()
SetEval(t) ==
    /\ pc[t] = "eval"
    /\ model' = [model EXCEPT ![cur[t]].eval = TRUE]
    /\ pc' = [pc EXCEPT ![t] = NextStage(cur[t], "eval")]
    /\ UNCHANGED <<device, loaded, tok, activations>>
    /\ UNCHANGED <<req, cur, part, ret, err, invoked>>
    /\ UNCHANGED acq

\* self._loaded = True
SetLoaded(t) ==
    /\ pc[t] = "flag"
    /\ loaded' = [loaded EXCEPT ![cur[t]] = TRUE]
    /\ activations' = [activations EXCEPT ![cur[t]] = @ + 1]
    /\ AfterLoad(t)
    /\ UNCHANGED <<device, model, tok>>
    /\ UNCHANGED acq

\* variant: the flag is set although acquisition failed
AcquireFailsMarksLoaded(t) ==
    /\ pc[t] \in {"acq_tok", "acq_model", "to"}
    /\ loaded' = [loaded EXCEPT ![cur[t]] = TRUE]
    /\ Raise(t, "LoadError")
    /\ UNCHANGED <<device, model, tok, activations>>
    /\ acq' = [acq EXCEPT ![t] = Append(@, <<cur[t], pc[t]>>)]

\* from_pretrained or .to() raises: the exception leaves load() and detect();
\* nothing catches it, nothing is undone
AcquireFails(t) ==
    /\ pc[t] \in {"acq_tok", "acq_model", "to"}
    /\ Raise(t, "LoadError")
    /\ UNCHANGED shared
    /\ acq' = [acq EXCEPT ![t] = Append(@, <<cur[t], pc[t]>>)]

\* variant: mode both stops at a deepfake verdict of the first detector
DetectReturnsShortCircuit(t, r) ==
    IF req[t].op = "detect_image" /\ req[t].mode = "both"
    THEN IF cur[t] = "deepfake" /\ r.classification # "deepfake"
         THEN /\ part' = [part EXCEPT ![t].deepfake = r]
              /\ Enter(t, "ai_image")
              /\ UNCHANGED <<req, ret, err>>
         ELSE IF cur[t] = "deepfake"
         THEN Return(t, r)
         ELSE /\ part' = [part EXCEPT ![t].ai_image = r]
              /\ pc' = [pc EXCEPT ![t] = "combine"]
              /\ cur' = [cur EXCEPT ![t] = "none"]
              /\ UNCHANGED <<req, ret, err, invoked>>
    ELSE Return(t, r)

\* variant: mode deepfake falls through to the ai_image detector
DetectReturnsFallsThrough(t, r) ==
    IF req[t].op = "detect_image" /\ cur[t] = "deepfake"
    THEN /\ part' = [part EXCEPT ![t].deepfake = r]
         /\ Enter(t, "ai_image")
         /\ UNCHANGED <<req, ret, err>>
    ELSE IF req[t].op = "detect_image" /\ req[t].mode = "both"
    THEN /\ part' = [part EXCEPT ![t].ai_image = r]
         /\ pc' = [pc EXCEPT ![t] = "combine"]
         /\ cur' = [cur EXCEPT ![t] = "none"]
         /\ UNCHANGED <<req, ret, err, invoked>>
    ELSE Return(t, r)

\* detect() returned r to detect_text / detect_image
DetectReturns(t, r) ==
    IF req[t].op = "detect_image" /\ req[t].mode = "both"
    THEN IF cur[t] = "deepfake"
         THEN \* deepfake_result = ...; ai_image_result = self.ai_image_service.detect(image)
              /\ part' = [part EXCEPT ![t].deepfake = r]
              /\ Enter(t, "ai_image")
              /\ UNCHANGED <<req, ret, err>>
         ELSE /\ part' = [part EXCEPT ![t].ai_image = r]
              /\ pc' = [pc EXCEPT ![t] = "combine"]
              /\ cur' = [cur EXCEPT ![t] = "none"]
              /\ UNCHANGED <<req, ret, err, invoked>>
    ELSE Return(t, r)

\* variant: an unsupported image input gets a default "uncertain" result
PrepFallback(t) ==
    /\ pc[t] = "prep"
    /\ cur[t] \in CodeDetectors
    /\ IF cur[t] = "deepfake" /\ req[t].kind = "other"
       THEN Return(t, DeepfakeResult(<<"raw", 0>>, 50000))
       ELSE /\ pc' = [pc EXCEPT ![t] = "infer"]
            /\ UNCHANGED <<req, cur, part, ret, err, invoked>>
    /\ UNCHANGED shared
    /\ UNCHANGED acq

\* the input is turned into the model's representation with self.tokenizer /
\* self.processor; an image that is neither path, bytes nor PIL image is refused
Prep(t) ==
    /\ pc[t] = "prep"
    /\ cur[t] \in CodeDetectors
    /\ IF cur[t] = "deepfake" /\ req[t].kind = "other"
       THEN Raise(t, "ValueError")
       ELSE /\ pc' = [pc EXCEPT ![t] = "infer"]
            /\ UNCHANGED <<req, cur, part, ret, err, invoked>>
    /\ UNCHANGED shared
    /\ UNCHANGED acq

\* outputs = self.model(...), the score, the classification and the result
Infer(t) ==
    /\ pc[t] = "infer"
    /\ cur[t] \in CodeDetectors
    /\ \E raw \in RawSamples :
         DetectReturns(t, IF cur[t] = "text"
                          THEN TextResult(req[t].content, raw)
                          ELSE DeepfakeResult(HashedBytes(req[t].kind, req[t].content),
                                              raw))
    /\ UNCHANGED shared
    /\ UNCHANGED acq

\* variant: in mode both a failed deepfake inference is passed over and the
\* ai_image detector runs all the same
InferFailsContinues(t) ==
    /\ pc[t] = "infer"
    /\ cur[t] \in CodeDetectors
    /\ IF req[t].op = "detect_image" /\ req[t].mode = "both"
       THEN /\ Enter(t, "ai_image")
            /\ UNCHANGED <<req, part, ret, err>>
       ELSE Raise(t, "InferenceError")
    /\ UNCHANGED shared
    /\ UNCHANGED acq

\* variant: a failed inference resets the detector
InferFailsUnloads(t) ==
    /\ pc[t] = "infer"
    /\ cur[t] \in CodeDetectors
    /\ loaded' = [loaded EXCEPT ![cur[t]] = FALSE]
    /\ Raise(t, "InferenceError")
    /\ UNCHANGED <<device, model, tok, activations>>
    /\ UNCHANGED acq

\* the model raises during inference
InferFails(t) ==
    /\ pc[t] = "infer"
    /\ cur[t] \in CodeDetectors
    /\ Raise(t, "InferenceError")
    /\ UNCHANGED shared
    /\ UNCHANGED acq

\* "overall": self._combine_image_results(...) and the returned dictionary
Combine(t) ==
    /\ pc[t] = "combine"
    /\ Return(t, BothResult(part[t].deepfake, part[t].ai_image))
    /\ UNCHANGED shared
    /\ UNCHANGED acq

(* ---------------- AIImageDetectionService ---------------- *)
\* activate(): serialized check-and-set; either already ready, or the resources
\* are acquired and the detector becomes ready, or acquisition fails and the
\* detector stays uninitialized
AIImageActivate(t) ==
    /\ pc[t] = "load"
    /\ cur[t] = "ai_image"
    /\ IF loaded["ai_image"]
       THEN /\ AfterLoad(t)
            /\ UNCHANGED <<loaded, model, tok, activations, acq>>
       ELSE /\ acq' = [acq EXCEPT ![t] = Append(@, <<"ai_image", "activate">>)]
            /\ \/ /\ loaded' = [loaded EXCEPT !["ai_image"] = TRUE]
                  /\ activations' = [activations EXCEPT !["ai_image"] = @ + 1]
                  /\ model' = [model EXCEPT !["ai_image"] =
                                 [id |-> NewId(@.id), moved |-> TRUE, eval |-> TRUE]]
                  /\ tok' = [tok EXCEPT !["ai_image"] = NewId(@)]
                  /\ AfterLoad(t)
               \/ /\ Raise(t, "LoadError")
                  /\ UNCHANGED <<loaded, model, tok, activations>>
    /\ UNCHANGED device

AIImagePrep(t) ==
    /\ pc[t] = "prep"
    /\ cur[t] = "ai_image"
    /\ IF req[t].kind = "other"
       THEN Raise(t, "ValueError")
       ELSE /\ pc' = [pc EXCEPT ![t] = "infer"]
            /\ UNCHANGED <<req, cur, part, ret, err, invoked>>
    /\ UNCHANGED shared
    /\ UNCHANGED acq

AIImageInfer(t) ==
    /\ pc[t] = "infer"
    /\ cur[t] = "ai_image"
    /\ \/ \E raw \in RawSamples :
            DetectReturns(t, AIImageResult(HashedBytes(req[t].kind, req[t].content), raw))
       \/ Raise(t, "InferenceError")
    /\ UNCHANGED shared
    /\ UNCHANGED acq

(* ---------------- the system ---------------- *)
\* the statements of the detectors and of the service, whoever the caller is
Body(t) ==
    \/ StatusRead(t)
    \/ LoadCheck(t)
    \/ AcquireTok(t)
    \/ AcquireModel(t)
    \/ MoveToDevice(t)
    \/ SetEval(t)
    \/ SetLoaded(t)
    \/ AcquireFails(t)
    \/ Prep(t)
    \/ Infer(t)
    \/ InferFails(t)
    \/ Combine(t)
    \/ AIImageActivate(t)
    \/ AIImagePrep(t)
    \/ AIImageInfer(t)
    \/ Finish(t)

Step(t) ==
    \/ StartDetectText(t, Contents)
    \/ StartDetectImage(t, Modes, ImageKinds, Contents)
    \/ StartLoad(t, Detectors)
    \/ StartGetStatus(t)
    \/ Body(t)

\* The handlers of main.py are coroutines that call the service synchronously:
\* the event loop runs one service call to its end before it starts the next.
Next ==
    /\ \E t \in Threads :
          /\ \A u \in Threads \ {t} : pc[u] = "idle"
          /\ Step(t)
    /\ UNCHANGED calc
    /\ UNCHANGED single

Spec == Init /\ [][Next]_vars

\* Callers that use the detectors from several threads: the statements of
\* concurrent calls interleave. The race is on a detector's first use, whatever
\* the input is.
RaceStep(t) ==
    \/ StartDetectText(t, {1})
    \/ StartDetectImage(t, {"deepfake"}, {"bytes"}, {1})
    \/ StartLoad(t, CodeDetectors)
    \/ LoadCheck(t)
    \/ AcquireTok(t)
    \/ AcquireModel(t)
    \/ MoveToDevice(t)
    \/ SetEval(t)
    \/ SetLoaded(t)
    \/ AcquireFails(t)
    \/ Prep(t)
    \/ Infer(t)
    \/ InferFails(t)
    \/ Finish(t)

RaceNext == (\E t \in Threads : RaceStep(t)) /\ UNCHANGED <<calc, single>>

RaceSpec == Init /\ [][RaceNext]_vars

(* ---------------- the score conversions on their own ---------------- *)
\* model scores the conversions are applied to: both sides of 30% and 70%,
\* the thresholds themselves, and scores that are not whole hundredths of a percent
ScoreSamples ==
    {0, 20000, 29996, 30000, 40000, 50000, 70000, 70004, 80000, 85000, 95000, 100000}

ScoreInit ==
    /\ Constructed
    /\ Imported
    /\ \E a \in ScoreSamples, b \in ScoreSamples :
         calc = [stage |-> "input", raw |-> a, raw2 |-> b, out |-> NoResult]

\* TextDetectionService.detect from the sigmoid output on
ApplyText ==
    /\ calc.stage = "input"
    /\ calc' = [calc EXCEPT !.stage = "text", !.out = TextResult(1, calc.raw)]

\* DeepfakeDetectionService.detect from the softmax output on
ApplyDeepfake ==
    /\ calc.stage = "input"
    /\ calc' = [calc EXCEPT !.stage = "deepfake", !.out = DeepfakeResult(<<"raw", 1>>, calc.raw)]

ApplyAIImage ==
    /\ calc.stage = "input"
    /\ calc' = [calc EXCEPT !.stage = "ai_image", !.out = AIImageResult(<<"raw", 1>>, calc.raw2)]

\* detect_image in mode both from the two model outputs on
ApplyBoth ==
    /\ calc.stage = "input"
    /\ calc' = [calc EXCEPT !.stage = "both",
                            !.out = BothResult(DeepfakeResult(<<"raw", 1>>, calc.raw),
                                               AIImageResult(<<"raw", 1>>, calc.raw2))]

ScoreNext ==
    /\ \/ ApplyText
       \/ ApplyDeepfake
       \/ ApplyAIImage
       \/ ApplyBoth
    /\ UNCHANGED <<device, loaded, model, tok, activations>>
    /\ UNCHANGED <<pc, req, cur, part, ret, err, invoked, acq>>
    /\ UNCHANGED single

ScoreSpec == ScoreInit /\ [][ScoreNext]_vars

(* ---------------- get_detection_service ---------------- *)
\* a handler of main.py, or startup_event, calls get_detection_service()
CallGet(t) ==
    /\ gpc[t] = "idle"
    /\ gpc' = [gpc EXCEPT ![t] = "test"]
    /\ handed' = [handed EXCEPT ![t] = 0]
    /\ UNCHANGED <<detection_service, constructed, inst>>

\* if _detection_service is None:
TestNone(t) ==
    /\ gpc[t] = "test"
    /\ gpc' = [gpc EXCEPT ![t] = IF detection_service = 0 THEN "construct" ELSE "return"]
    /\ UNCHANGED <<detection_service, constructed, inst, handed>>

\* UnifiedDetectionService(): a new object, not yet stored
Construct(t) ==
    /\ gpc[t] = "construct"
    /\ constructed' = constructed + 1
    /\ inst' = [inst EXCEPT ![t] = constructed + 1]
    /\ gpc' = [gpc EXCEPT ![t] = "assign"]
    /\ UNCHANGED <<detection_service, handed>>

\* _detection_service = <the new object>
Assign(t) ==
    /\ gpc[t] = "assign"
    /\ detection_service' = inst[t]
    /\ inst' = [inst EXCEPT ![t] = 0]
    /\ gpc' = [gpc EXCEPT ![t] = "return"]
    /\ UNCHANGED <<constructed, handed>>

\* return _detection_service
ReturnService(t) ==
    /\ gpc[t] = "return"
    /\ handed' = [handed EXCEPT ![t] = detection_service]
    /\ gpc' = [gpc EXCEPT ![t] = "idle"]
    /\ UNCHANGED <<detection_service, constructed, inst>>

GetStep(t) ==
    \/ CallGet(t)
    \/ TestNone(t)
    \/ Construct(t)
    \/ Assign(t)
    \/ ReturnService(t)

\* callers on several threads, interleaved statement by statement
SingletonNext ==
    /\ \E t \in Threads : GetStep(t)
    /\ UNCHANGED <<shared, locals, calc>>

SingletonSpec == Init /\ [][SingletonNext]_vars

(* ======================= claims ======================= *)
Acting(t) == <<pc[t], req[t], cur[t], part[t], ret[t], err[t], invoked[t], acq[t]>>

NoDuplicates(seq) == \A i, j \in 1..Len(seq) : seq[i] = seq[j] => i = j

AcqStages == {"acq_tok", "acq_model", "to", "eval", "flag"}

\* C1: under any interleaving of concurrent detect()/load() calls, the
\* uninitialized -> ready transition of a detector executes at most once.
C1_ActivatedAtMostOnce == \A d \in Detectors : activations[d] <= 1

\* C2: a load() call (direct or through detect()) on a detector that is ready
\* returns at once: the detector stays ready, model and tokenizer/processor
\* handles are the same objects, nothing is acquired, and a ready detector has
\* been activated exactly once however many calls were made.
C2_LoadIdempotent ==
    /\ [][\A t \in Threads : \A d \in Detectors :
            (pc[t] = "load" /\ cur[t] = d /\ loaded[d] /\ Acting(t)' # Acting(t))
            => /\ loaded'[d]
               /\ model'[d] = model[d]
               /\ tok'[d] = tok[d]
               /\ activations'[d] = activations[d]
               /\ acq'[t] = acq[t]
               /\ pc'[t] \in {"prep", "returned"}]_vars
    /\ [](\A d \in Detectors : loaded[d] => activations[d] = 1)

\* a direct load() on a ready detector has returned without acquiring anything
C2_Witness ==
    \E t \in Threads :
        /\ pc[t] = "returned" /\ req[t].op = "load" /\ acq[t] = <<>>
        /\ loaded[req[t].mode] /\ activations[req[t].mode] = 1

\* C3: when a step of load() fails, the call ends with that exception and no
\* result, the detector is still uninitialized, the call attempted every
\* acquisition step at most once (no retry inside the call), and a later call
\* on the still uninitialized detector starts acquisition again.
C3_FailedLoadStaysUninitialized ==
    /\ [][\A t \in Threads :
            (err[t] = "none" /\ err'[t] = "LoadError")
            => /\ pc'[t] = "raised"
               /\ ret'[t] = NoResult
               /\ ~loaded'[cur[t]]
               /\ NoDuplicates(acq'[t])]_vars
    /\ [][\A t \in Threads :
            (pc[t] = "load" /\ ~loaded[cur[t]] /\ Acting(t)' # Acting(t))
            => (pc'[t] \in AcqStages \/ Len(acq'[t]) > Len(acq[t]))]_vars
    /\ [](\A t \in Threads :
            (pc[t] = "raised" /\ err[t] = "LoadError")
            => ~loaded[invoked[t][Len(invoked[t])]])

\* the text detector is ready although its tokenizer was acquired twice and its
\* model once: the first load failed at the model and a later call retried
C3_Witness ==
    /\ loaded["text"] /\ tok["text"] = 2 /\ model["text"].id = 1
    /\ activations["text"] = 1

\* C4: once a detector is ready it is ready in every later state, whatever
\* calls follow and whether they succeed or fail.
C4_ReadyStaysReady == [][\A d \in Detectors : loaded[d] => loaded'[d]]_vars

\* all three detectors are ready and a call on them has just failed
C4_Witness ==
    /\ \A d \in Detectors : loaded[d]
    /\ \E t \in Threads : pc[t] = "raised" /\ err[t] = "InferenceError"

\* C5: get_status changes no detector field and invokes no detector; each entry
\* it reports is the detector's loaded flag and device at the time it is read,
\* and a detector that was never activated is reported as not loaded.
C5_GetStatusReadOnly ==
    /\ [][\A t \in Threads :
            ((req[t].op = "get_status" \/ req'[t].op = "get_status")
              /\ Acting(t)' # Acting(t))
            => /\ UNCHANGED shared
               /\ invoked'[t] = <<>> /\ acq'[t] = <<>>
               /\ pc[t] = "status" =>
                    LET n == Len(ret[t].services) + 1
                    IN  /\ Len(ret'[t].services) = n
                        /\ ret'[t].services[n].loaded = loaded[StatusOrder[n]]
                        /\ ret'[t].services[n].device = device[StatusOrder[n]]]_vars
    /\ [](\A t \in Threads :
            (pc[t] = "returned" /\ req[t].op = "get_status")
            => /\ Len(ret[t].services) = 3
               /\ \A i \in 1..3 :
                    activations[StatusOrder[i]] = 0 => ~ret[t].services[i].loaded)

\* a status report that shows the text detector loaded and the others not
C5_Witness ==
    \E t \in Threads :
        /\ pc[t] = "returned" /\ req[t].op = "get_status"
        /\ ret[t].services[1].loaded
        /\ ~ret[t].services[2].loaded /\ ~ret[t].services[3].loaded

\* C6: detect_image with a mode other than deepfake, ai_generated or both
\* raises, enters no detector and leaves every detector field as it was.
C6_InvalidModeRejected ==
    /\ [][\A t \in Threads :
            (pc[t] = "idle" /\ req'[t].op = "detect_image"
              /\ req'[t].mode \notin ValidModes)
            => /\ pc'[t] = "raised" /\ err'[t] = "ValueError"
               /\ ret'[t] = NoResult
               /\ invoked'[t] = <<>> /\ acq'[t] = <<>>
               /\ UNCHANGED shared]_vars
    /\ [](\A t \in Threads :
            (req[t].op = "detect_image" /\ req[t].mode \notin ValidModes)
            => pc[t] = "raised" /\ invoked[t] = <<>> /\ acq[t] = <<>>)

C6_Witness ==
    \E t \in Threads :
        /\ pc[t] = "raised" /\ err[t] = "ValueError"
        /\ req[t].op = "detect_image" /\ req[t].mode = "bogus" /\ req[t].kind = "bytes"
        /\ \A d \in Detectors : ~loaded[d]

SingleDetector(r) ==
    \/ r.op = "detect_text"
    \/ r.op = "detect_image" /\ r.mode \in {"deepfake", "ai_generated"}

OwnDetector(r) ==
    IF r.op = "detect_text" THEN "text"
    ELSE IF r.mode = "deepfake" THEN "deepfake" ELSE "ai_image"

\* C7: detect_text, detect_image(deepfake) and detect_image(ai_generated) enter
\* only their own detector; no step of such a call changes the lifecycle state
\* or the handles of the other two detectors.
C7_SingleDetectorOnly ==
    /\ [][\A t \in Threads :
            (SingleDetector(req'[t]) /\ Acting(t)' # Acting(t))
            => \A d \in Detectors \ {OwnDetector(req'[t])} :
                  /\ loaded'[d] = loaded[d]
                  /\ model'[d] = model[d]
                  /\ tok'[d] = tok[d]
                  /\ activations'[d] = activations[d]]_vars
    /\ [](\A t \in Threads :
            SingleDetector(req[t])
            => /\ invoked[t] = <<OwnDetector(req[t])>>
               /\ \A i \in 1..Len(acq[t]) : acq[t][i][1] = OwnDetector(req[t]))

\* an ai_generated request has returned: only the ai_image detector is ready
C7_Witness ==
    \E t \in Threads :
        /\ pc[t] = "returned" /\ req[t].mode = "ai_generated"
        /\ ret[t].kind = "ai_image"
        /\ loaded["ai_image"] /\ ~loaded["deepfake"] /\ ~loaded["text"]

BothMode(r) == r.op = "detect_image" /\ r.mode = "both"

\* C8: in mode both, when the deepfake detector returns a result the ai_image
\* detector is entered next whatever the verdict was; the results are combined
\* only when both detectors have returned one; and the returned result carries
\* both analyses as the detectors produced them, and the overall assessment.
C8_BothRunsBothThenFuses ==
    /\ [][\A t \in Threads :
            (BothMode(req[t]) /\ cur[t] = "deepfake" /\ pc[t] = "infer"
              /\ Acting(t)' # Acting(t) /\ err'[t] = "none")
            => /\ pc'[t] = "load" /\ cur'[t] = "ai_image"
               /\ part'[t].deepfake.kind = "deepfake"]_vars
    /\ [][\A t \in Threads :
            (BothMode(req[t]) /\ pc[t] # "returned" /\ pc'[t] = "returned")
            => /\ pc[t] = "combine"
               /\ ret'[t].kind = "both"
               /\ ret'[t].deepfake_analysis.classification = part[t].deepfake.classification
               /\ ret'[t].deepfake_analysis.probability = part[t].deepfake.deepfake_probability
               /\ ret'[t].ai_generated_analysis.classification
                    = part[t].ai_image.classification
               /\ ret'[t].ai_generated_analysis.probability = part[t].ai_image.ai_probability
               /\ ret'[t].overall.classification
                    \in {"deepfake", "ai_generated", "uncertain", "authentic"}]_vars
    /\ [](\A t \in Threads :
            (BothMode(req[t]) /\ pc[t] \in {"combine", "returned"})
            => /\ invoked[t] = <<"deepfake", "ai_image">>
               /\ pc[t] = "combine" =>
                    /\ part[t].deepfake.kind = "deepfake"
                    /\ part[t].ai_image.kind = "ai_image")

\* the deepfake detector was confident (85%) and the ai_image detector still ran
C8_Witness ==
    \E t \in Threads :
        /\ pc[t] = "returned" /\ BothMode(req[t])
        /\ ret[t].deepfake_analysis.classification = "deepfake"
        /\ ret[t].deepfake_analysis.probability = 8500
        /\ ret[t].ai_generated_analysis.classification = "authentic"

\* C9: in mode both a call returns a value only through the combination of two
\* results; a call in which a detector raised ends raised, with no value, and
\* stays so until the caller takes the exception.
C9_BothFailsAsAWhole ==
    /\ [](\A t \in Threads :
            BothMode(req[t])
            => /\ pc[t] = "raised" => (ret[t] = NoResult /\ err[t] # "none")
               /\ pc[t] = "returned" => (ret[t].kind = "both" /\ err[t] = "none")
               /\ pc[t] \notin {"raised", "returned"} => ret[t] = NoResult)
    /\ [][\A t \in Threads :
            (BothMode(req[t]) /\ pc[t] = "raised" /\ Acting(t)' # Acting(t))
            => pc'[t] = "idle"]_vars
    /\ [][\A t \in Threads :
            (BothMode(req[t]) /\ pc[t] \notin {"combine", "returned"})
            => pc'[t] # "returned"]_vars

\* the deepfake detector succeeded, the ai_image detector failed in inference
C9_Witness ==
    \E t \in Threads :
        /\ pc[t] = "raised" /\ BothMode(req[t])
        /\ invoked[t] = <<"deepfake", "ai_image">>
        /\ err[t] = "InferenceError" /\ ret[t] = NoResult
        /\ loaded["deepfake"] /\ loaded["ai_image"]

\* C10: the overall classification follows strict precedence: deepfake if the
\* manipulation verdict is deepfake; else ai_generated if the synthetic verdict
\* is ai_generated; else uncertain if either is uncertain; else authentic; with
\* the assessment string of the rule that fired.
C10_FusionPrecedence ==
    \A t \in Threads :
        (pc[t] = "returned" /\ BothMode(req[t])) =>
            LET m == ret[t].deepfake_analysis.classification
                s == ret[t].ai_generated_analysis.classification
                o == ret[t].overall
            IN  /\ m = "deepfake" =>
                    /\ o.classification = "deepfake"
                    /\ o.assessment = "Face manipulation detected"
                /\ (m # "deepfake" /\ s = "ai_generated") =>
                    /\ o.classification = "ai_generated"
                    /\ o.assessment = "AI-generated image detected"
                /\ (m # "deepfake" /\ s # "ai_generated" /\ "uncertain" \in {m, s}) =>
                    /\ o.classification = "uncertain"
                    /\ o.assessment = "Inconclusive - may contain AI elements"
                /\ (m # "deepfake" /\ s # "ai_generated" /\ "uncertain" \notin {m, s}) =>
                    /\ o.classification = "authentic"
                    /\ o.assessment = "No AI manipulation detected"

\* manipulation 20% (real), synthetic 85% (ai_generated): overall ai_generated
C10_Witness ==
    \E t \in Threads :
        /\ pc[t] = "returned" /\ BothMode(req[t])
        /\ ret[t].deepfake_analysis.probability = 2000
        /\ ret[t].deepfake_analysis.classification = "real"
        /\ ret[t].ai_generated_analysis.probability = 8500
        /\ ret[t].ai_generated_analysis.classification = "ai_generated"
        /\ ret[t].overall.classification = "ai_generated"
        /\ ret[t].overall.assessment = "AI-generated image detected"

(* ---------------- C11 ---------------- *)
\* C11: the fused probability is the larger of the manipulation probability
\* and the synthetic probability, for every pair and whichever rule gave the
\* overall classification; manipulation 80 and synthetic 40 give 80.
C11_OverallIsMax ==
    calc.stage = "both" =>
        LET m == calc.out.deepfake_analysis.probability
            s == calc.out.ai_generated_analysis.probability
            o == calc.out.overall.ai_probability
        IN  /\ o \in {m, s}
            /\ o >= m
            /\ o >= s
            /\ (m = 8000 /\ s = 4000) => o = 8000

C11_Witness ==
    /\ calc.stage = "both"
    /\ calc.out.deepfake_analysis.probability = 8000
    /\ calc.out.ai_generated_analysis.probability = 4000
    /\ calc.out.overall.classification = "deepfake"
    /\ calc.out.overall.ai_probability = 8000

(* ---------------- C12 ---------------- *)
\* C12 as stated: the text result has ai_probability = raw*100 exactly, is ai
\* iff raw*100 > 70, human iff raw*100 < 30, mixed otherwise, and has
\* confidence = |raw - 0.5| * 200 exactly, in [0,100].
C12_TextExact ==
    calc.stage = "text" =>
        /\ 10 * calc.out.ai_probability = calc.raw
        /\ calc.out.classification = "ai" <=> calc.raw > 70000
        /\ calc.out.classification = "human" <=> calc.raw < 30000
        /\ calc.out.classification = "mixed" <=> (calc.raw >= 30000 /\ calc.raw <= 70000)
        /\ 5 * calc.out.confidence = Abs(calc.raw - 50000)
        /\ calc.out.confidence \in 0..10000

\* C12 amended: ai_probability is raw*100 rounded to two decimals; the result
\* is ai iff that rounded value is above 70, human iff it is below 30, mixed
\* otherwise (exactly 70 and exactly 30 are mixed); confidence is
\* |raw - 0.5| * 200 rounded to two decimals, in [0,100]; all of it is fixed by
\* raw alone. raw = 0.95 gives 95.0 / ai / 90.0 and raw = 0.5 gives mixed / 0.0.
C12_TextRounded ==
    calc.stage = "text" =>
        LET raw == calc.raw
            p == calc.out.ai_probability
            c == calc.out.confidence
        IN  /\ p \in 0..10000
            /\ 2 * Abs(10 * p - raw) <= 10
            /\ calc.out.classification = "ai" <=> p > 7000
            /\ calc.out.classification = "human" <=> p < 3000
            /\ calc.out.classification = "mixed" <=> (p >= 3000 /\ p <= 7000)
            /\ c \in 0..10000
            /\ 2 * Abs(5 * c - Abs(raw - 50000)) <= 5
            /\ raw = 95000 =>
                 (p = 9500 /\ calc.out.classification = "ai" /\ c = 9000)
            /\ raw = 50000 => (calc.out.classification = "mixed" /\ c = 0)
            /\ raw = 70000 => calc.out.classification = "mixed"
            /\ raw = 30000 => calc.out.classification = "mixed"

\* a score just above 0.70 whose reported percentage is exactly 70.0
C12_Witness ==
    /\ calc.stage = "text"
    /\ calc.raw = 70004
    /\ calc.out.ai_probability = 7000
    /\ calc.out.classification = "mixed"

(* ---------------- C13 ---------------- *)
\* C13 as stated: the manipulation result has probability = score*100
\* exactly, is deepfake iff probability > 70, real iff probability < 30,
\* uncertain otherwise, and has confidence = |probability - 50| * 2 in [0,100].
C13_DeepfakeExact ==
    calc.stage = "deepfake" =>
        LET p == calc.out.deepfake_probability
        IN  /\ 10 * p = calc.raw
            /\ calc.out.classification = "deepfake" <=> p > 7000
            /\ calc.out.classification = "real" <=> p < 3000
            /\ calc.out.classification = "uncertain" <=> (p >= 3000 /\ p <= 7000)
            /\ calc.out.confidence = Abs(p - 5000) * 2
            /\ calc.out.confidence \in 0..10000

\* C13 amended: probability is score*100 rounded to two decimals; the result
\* is deepfake iff probability > 70, real iff probability < 30, uncertain
\* otherwise (exactly 70 and exactly 30 are uncertain); confidence is
\* |probability - 50| * 2 and lies in [0,100].
C13_DeepfakeRounded ==
    calc.stage = "deepfake" =>
        LET p == calc.out.deepfake_probability
        IN  /\ p \in 0..10000
            /\ 2 * Abs(10 * p - calc.raw) <= 10
            /\ calc.out.classification = "deepfake" <=> p > 7000
            /\ calc.out.classification = "real" <=> p < 3000
            /\ calc.out.classification = "uncertain" <=> (p >= 3000 /\ p <= 7000)
            /\ calc.out.confidence = Abs(p - 5000) * 2
            /\ calc.out.confidence \in 0..10000
            /\ calc.raw = 70000 => calc.out.classification = "uncertain"
            /\ calc.raw = 30000 => calc.out.classification = "uncertain"

\* a score just below 0.30 whose reported percentage is exactly 30.0
C13_Witness ==
    /\ calc.stage = "deepfake"
    /\ calc.raw = 29996
    /\ calc.out.deepfake_probability = 3000
    /\ calc.out.classification = "uncertain"
    /\ calc.out.confidence = 4000

(* ---------------- C14 ---------------- *)
\* C14: the content hash a detect call returns is the digest of its input
\* and of nothing else: of the text, of the image bytes (given directly or
\* as the contents of the file named), of the PNG encoding of a PIL image;
\* the same in every detection mode, from either image detector, after any
\* earlier calls, and in mode both the same as in a single mode.
C14_HashOfInputAlone ==
    \A t \in Threads :
        (pc[t] = "returned" /\ req[t].op \in {"detect_text", "detect_image"}) =>
            ret[t].content_hash =
                <<"sha256", <<IF req[t].kind = "pil" THEN "png" ELSE "raw",
                              req[t].content>>>>

\* a call in mode both on a file, after the text detector served a call
C14_Witness ==
    \E t \in Threads :
        /\ pc[t] = "returned"
        /\ req[t].op = "detect_image"
        /\ req[t].mode = "both"
        /\ req[t].kind = "path"
        /\ req[t].content = 2
        /\ loaded["text"]
        /\ ret[t].content_hash = <<"sha256", <<"raw", 2>>>>
        /\ ret[t].deepfake_analysis.probability # ret[t].ai_generated_analysis.probability

(* ---------------- C15 ---------------- *)
\* C15: get_detection_service() constructs one UnifiedDetectionService in
\* the life of the process and every call returns that same object, also
\* when callers overlap before the first construction is stored.
C15_OneInstance ==
    /\ constructed <= 1
    /\ \A t, u \in Threads : (handed[t] # 0 /\ handed[u] # 0) => handed[t] = handed[u]

(* ---------------- C16 ---------------- *)
DetectOps == {"detect_text", "detect_image"}

\* what a detector's detect() can return for request r
Genuine(r) ==
    LET data == HashedBytes(r.kind, r.content)
    IN  {TextResult(r.content, raw) : raw \in RawSamples}
            \cup {DeepfakeResult(data, raw) : raw \in RawSamples}
            \cup {AIImageResult(data, raw) : raw \in RawSamples}
            \cup {BothResult(DeepfakeResult(data, a), AIImageResult(data, b)) :
                    a \in RawSamples, b \in RawSamples}

\* C16: an unrecognized mode, an unsupported image input, a failed activation
\* and a failed inference each end the detect call with an error and no
\* value; a call that returns a value met none of them, and the value is the
\* output of the inference(s), never a default.
C16_FailuresSurface ==
    /\ [](\A t \in Threads :
            req[t].op \in DetectOps
            => /\ pc[t] = "raised" => (ret[t] = NoResult /\ err[t] # "none")
               /\ pc[t] = "returned"
                    => /\ err[t] = "none"
                       /\ req[t].kind # "other"
                       /\ req[t].op = "detect_image" => req[t].mode \in ValidModes
                       /\ \A i \in 1..Len(invoked[t]) : loaded[invoked[t][i]]
                       /\ ret[t] \in Genuine(req[t]))
    \* unrecognized mode
    /\ [][\A t \in Threads :
            (pc[t] = "idle" /\ req'[t].op = "detect_image"
                /\ req'[t].mode \notin ValidModes)
            => (pc'[t] = "raised" /\ err'[t] = "ValueError" /\ ret'[t] = NoResult)]_vars
    \* unsupported image input
    /\ [][\A t \in Threads :
            (req[t].op \in DetectOps /\ pc[t] = "prep" /\ req[t].kind = "other"
                /\ Acting(t)' # Acting(t))
            => (pc'[t] = "raised" /\ err'[t] = "ValueError" /\ ret'[t] = NoResult)]_vars
    \* activation left without the detector being ready
    /\ [][\A t \in Threads :
            (req[t].op \in DetectOps /\ pc[t] \in AcqStages \cup {"load"}
                /\ pc'[t] \notin AcqStages \cup {"load"} /\ ~loaded'[cur[t]])
            => (pc'[t] = "raised" /\ err'[t] = "LoadError" /\ ret'[t] = NoResult)]_vars
    \* inference left without a result
    /\ [][\A t \in Threads :
            (req[t].op \in DetectOps /\ pc[t] = "infer" /\ Acting(t)' # Acting(t)
                /\ ret'[t] = NoResult /\ part'[t] = part[t])
            => (pc'[t] = "raised" /\ err'[t] = "InferenceError")]_vars

\* a deepfake request with an unsupported input, refused once the detector is ready
C16_Witness ==
    \E t \in Threads :
        /\ pc[t] = "raised"
        /\ req[t].op = "detect_image" /\ req[t].mode = "deepfake"
        /\ req[t].kind = "other"
        /\ err[t] = "ValueError" /\ ret[t] = NoResult
        /\ loaded["deepfake"]

C18_InferenceOnReadyHandle ==
    \A t \in Threads :
        (pc[t] = "infer" /\ cur[t] \in CodeDetectors)
        => /\ model[cur[t]].id # 0
           /\ model[cur[t]].moved
           /\ model[cur[t]].eval
           /\ tok[cur[t]] # 0

(* ---------------- C19 ---------------- *)
Fields(d) == <<loaded[d], model[d], tok[d], activations[d]>>

\* C19: in mode both the deepfake detector runs first and the ai_image
\* detector second; a call whose deepfake detect fails ends there, without
\* entering the ai_image detector and without changing its state; a call
\* whose ai_image detect fails after the deepfake detect succeeded ends with
\* the error while the deepfake detector is, and stays, ready.
C19_BothOrderAndFailure ==
    /\ [](\A t \in Threads :
            BothMode(req[t])
            => /\ invoked[t] \in {<<"deepfake">>, <<"deepfake", "ai_image">>}
               /\ invoked[t] = <<"deepfake">>
                    => \A i \in 1..Len(acq[t]) : acq[t][i][1] = "deepfake"
               /\ (invoked[t] = <<"deepfake", "ai_image">>
                     /\ pc[t] \notin {"raised", "returned"})
                    => part[t].deepfake.kind = "deepfake"
               /\ (pc[t] = "raised" /\ invoked[t] = <<"deepfake", "ai_image">>)
                    => loaded["deepfake"])
    /\ [][\A t \in Threads :
            (BothMode(req[t]) /\ cur[t] = "deepfake" /\ Acting(t)' # Acting(t))
            => /\ Fields("ai_image")' = Fields("ai_image")
               /\ (part'[t].deepfake = NoResult /\ pc'[t] \notin AcqStages \cup {"load", "prep", "infer"})
                    => /\ pc'[t] = "raised"
                       /\ invoked'[t] = <<"deepfake">>
                       /\ err'[t] # "none"]_vars
    /\ [][\A t \in Threads :
            (BothMode(req[t]) /\ pc[t] = "raised" /\ Acting(t)' # Acting(t))
            => /\ pc'[t] = "idle"
               /\ UNCHANGED shared]_vars
    /\ [][\A t \in Threads :
            (BothMode(req[t]) /\ cur[t] = "ai_image" /\ Acting(t)' # Acting(t))
            => /\ loaded["deepfake"] /\ loaded'["deepfake"]
               /\ Fields("deepfake")' = Fields("deepfake")]_vars

\* the deepfake detector failed in inference on a call in mode both: the
\* ai_image detector was never entered and is still uninitialized
C19_Witness ==
    \E t \in Threads :
        /\ pc[t] = "raised" /\ BothMode(req[t])
        /\ invoked[t] = <<"deepfake">>
        /\ err[t] = "InferenceError"
        /\ loaded["deepfake"] /\ ~loaded["ai_image"]
        /\ model["ai_image"] = NoHandle

(* ---------------- C20 ---------------- *)
\* the 70/30 policy applied to a reported probability
Band(p) == IF p > 7000 THEN "high" ELSE IF p < 3000 THEN "low" ELSE "middle"

\* C20: when each detector's classification follows from its own probability
\* by the 70/30 policy, an overall deepfake or ai_generated comes with an
\* overall probability above 70, an overall authentic with one below 30, and
\* an overall uncertain with at least one input probability in [30, 70].
C20_HeadlineConsistent ==
    calc.stage = "both" =>
        LET da == calc.out.deepfake_analysis
            aa == calc.out.ai_generated_analysis
            o == calc.out.overall
            derived ==
                /\ da.classification = "deepfake" <=> Band(da.probability) = "high"
                /\ da.classification = "real" <=> Band(da.probability) = "low"
                /\ da.classification = "uncertain" <=> Band(da.probability) = "middle"
                /\ aa.classification = "ai_generated" <=> Band(aa.probability) = "high"
                /\ aa.classification = "authentic" <=> Band(aa.probability) = "low"
                /\ aa.classification = "uncertain" <=> Band(aa.probability) = "middle"
        IN  derived =>
                /\ o.classification \in {"deepfake", "ai_generated"}
                     => o.ai_probability > 7000
                /\ o.classification = "authentic" => o.ai_probability < 3000
                /\ o.classification = "uncertain"
                     => (Band(da.probability) = "middle" \/ Band(aa.probability) = "middle")
                /\ o.classification \in {"deepfake", "ai_generated", "authentic", "uncertain"}

\* the classification comes from the deepfake detector, the probability from
\* the ai_image detector
C20_Witness ==
    /\ calc.stage = "both"
    /\ calc.out.deepfake_analysis.probability = 8000
    /\ calc.out.ai_generated_analysis.probability = 9500
    /\ calc.out.overall.classification = "deepfake"
    /\ calc.out.overall.ai_probability = 9500

====
